---- MODULE Spec2Model ----
(***************************************************************************)
(* A model of the example parsers of docs/docs/how_to/output_parser_custom *)
(* (.ipynb): the function parser `parse`, the generator parser             *)
(* `streaming_parse`, BooleanOutputParser and StrInvertCase, together with *)
(* the part of the runnable engine the examples drive (invoke, stream,     *)
(* batch, abatch).                                                         *)
(*                                                                         *)
(* A Python str is a sequence of one-character strings.                    *)
(***************************************************************************)
EXTENDS Integers, Sequences, FiniteSets, TLC

VARIABLES
    parser,     \* the BooleanOutputParser bound to `parser`: [true_val, false_val]
    call,       \* the last call on `parser`: [state, input, outcome]
    gcall,      \* the last StrInvertCase.parse_result call, or a direct parse call
    chain,      \* the streamed chain: "lambda" (model | parse), "generator", "none"
    frags,      \* the fragments the model delivers to the streamed chain
    consumed,   \* how many fragments the parser has consumed
    agg,        \* RunnableLambda's aggregate of the consumed fragments
    out,        \* the chunks the chain has emitted so far
    spc,        \* position of the streamed parser: idle, pull, yield, done
    bmode,      \* "batch", "abatch" or "none"
    inputs,     \* the inputs of the running batch
    slots,      \* per input: <<>> while pending, <<outcome>> once parsed
    order,      \* the indices of the inputs in the order their parses completed
    bstate,     \* idle, running, done
    bresult     \* what batch/abatch handed to its caller

vars == <<parser, call, gcall, chain, frags, consumed, agg, out, spc,
          bmode, inputs, slots, order, bstate, bresult>>

boolVars == <<parser, call>>
genVars == <<gcall>>
streamVars == <<chain, frags, consumed, agg, out, spc>>
batchVars == <<bmode, inputs, slots, order, bstate, bresult>>

----------------------------------------------------------------------------
(* Bounds *)

MaxLen == 3        \* longest enumerated input text
MaxTokLen == 1     \* longest enumerated configured token
MaxGens == 2       \* most candidates handed to parse_result
MaxFrags == 3      \* most fragments of one streamed model output
MaxBatch == 3      \* most inputs of one batch

----------------------------------------------------------------------------
(* Python str *)

LowerLetters ==
    <<"a","b","c","d","e","f","g","h","i","j","k","l","m",
      "n","o","p","q","r","s","t","u","v","w","x","y","z">>

UpperLetters ==
    <<"A","B","C","D","E","F","G","H","I","J","K","L","M",
      "N","O","P","Q","R","S","T","U","V","W","X","Y","Z">>

Whitespace == {" ", "\t", "\n", "\r"}

IsLower(c) == \E i \in 1..Len(LowerLetters) : LowerLetters[i] = c

IsUpper(c) == \E i \in 1..Len(UpperLetters) : UpperLetters[i] = c

LetterIndex(letters, c) == CHOOSE i \in 1..Len(letters) : letters[i] = c

\* str.upper() on one character
UpperChar(c) == IF IsLower(c) THEN UpperLetters[LetterIndex(LowerLetters, c)] ELSE c

\* str.swapcase() on one character
SwapChar(c) ==
    IF IsLower(c) THEN UpperLetters[LetterIndex(LowerLetters, c)]
    ELSE IF IsUpper(c) THEN LowerLetters[LetterIndex(UpperLetters, c)]
    ELSE c

\* str.upper()
Upper(s) == [i \in 1..Len(s) |-> UpperChar(s[i])]

\* str.swapcase()
SwapCase(s) == [i \in 1..Len(s) |-> SwapChar(s[i])]

RECURSIVE LStrip(_)
LStrip(s) ==
    IF s # <<>> /\ Head(s) \in Whitespace THEN LStrip(Tail(s)) ELSE s

RECURSIVE RStrip(_)
RStrip(s) ==
    IF s # <<>> /\ s[Len(s)] \in Whitespace
    THEN RStrip(SubSeq(s, 1, Len(s) - 1))
    ELSE s

\* str.strip()
Strip(s) == RStrip(LStrip(s))

\* str + str over a list of strings, left to right
RECURSIVE Concat(_)
Concat(ss) == IF ss = <<>> THEN <<>> ELSE Head(ss) \o Concat(Tail(ss))

BoundedSeq(S, n) == UNION {[1..k -> S] : k \in 0..n}

----------------------------------------------------------------------------
(* Outcomes of a call: a returned value, or a raised exception and no value *)

Return(v) == [kind |-> "return", value |-> <<v>>, exc |-> "none"]

Raise(e) == [kind |-> "raise", value |-> <<>>, exc |-> e]

NoOutcome == [kind |-> "none", value |-> <<>>, exc |-> "none"]

----------------------------------------------------------------------------
(* Inputs *)

\* The characters the enumerated texts are built from: one letter in both
\* cases and a whitespace character; the examples bring the other letters.
Sigma == {"y", "Y", " "}

YES == <<"Y","E","S">>
NO == <<"N","O">>
OKAY == <<"O","K","A","Y">>
MEOW == <<"M","E","O","W">>

ExampleTokens == {YES, NO, OKAY, <<"o","k","a","y">>, <<" ","O","K">>, <<"n">>}

ExampleTexts ==
    ExampleTokens \cup
    {MEOW, <<"y","e","s">>, <<"Y","e","s">>, <<"n","o">>, <<" ","n","o","\n">>,
     <<"\t","O","k","a","y"," ">>, <<"O","K">>, <<"N"," ","O">>}

Tokens == BoundedSeq(Sigma, MaxTokLen) \cup ExampleTokens

Texts == BoundedSeq(Sigma, MaxLen) \cup ExampleTexts

\* What a parser is invoked on: the output of an LLM (a str) or of a chat
\* model (an AIMessage)
StrInput(t) == [kind |-> "str", content |-> t]

AIMessage(t) == [kind |-> "AIMessage", content |-> t]

ParserInputs == {StrInput(t) : t \in Texts} \cup {AIMessage(t) : t \in Texts}

----------------------------------------------------------------------------
(* Generations *)

NoMessage == [kind |-> "none", content |-> <<>>]

\* A plain-text candidate: it carries no message
Generation(t) == [kind |-> "Generation", text |-> t, message |-> NoMessage]

\* A chat candidate: it takes its text from the content of its message
ChatGeneration(m) == [kind |-> "ChatGeneration", text |-> m.content, message |-> m]

----------------------------------------------------------------------------
(* BooleanOutputParser *)

BooleanOutputParser(tv, fv) == [true_val |-> tv, false_val |-> fv]

DefaultParser == BooleanOutputParser(YES, NO)

\* A parse that forgets to strip the text.
BooleanOutputParser_parse_nostrip(self, text) ==
    LET cleaned_text == Upper(text)
    IN  IF cleaned_text \notin {Upper(self.true_val), Upper(self.false_val)}
        THEN Raise("OutputParserException")
        ELSE Return(cleaned_text = Upper(self.true_val))

\* A parse that answers False for whatever is not the true token.
BooleanOutputParser_parse_lenient(self, text) ==
    LET cleaned_text == Upper(Strip(text))
    IN  Return(cleaned_text = Upper(self.true_val))

\* A parse that upper-cases the text but not the configured tokens.
BooleanOutputParser_parse_cased(self, text) ==
    LET cleaned_text == Upper(Strip(text))
    IN  IF cleaned_text \notin {self.true_val, self.false_val}
        THEN Raise("OutputParserException")
        ELSE Return(cleaned_text = self.true_val)

\* A parse that signals a mismatch as a ValueError.
BooleanOutputParser_parse_valueerror(self, text) ==
    LET cleaned_text == Upper(Strip(text))
    IN  IF cleaned_text \notin {Upper(self.true_val), Upper(self.false_val)}
        THEN Raise("ValueError")
        ELSE Return(cleaned_text = Upper(self.true_val))

BooleanOutputParser_parse(self, text) ==
    LET cleaned_text == Upper(Strip(text))
    IN  IF cleaned_text \notin {Upper(self.true_val), Upper(self.false_val)}
        THEN Raise("OutputParserException")
        ELSE Return(cleaned_text = Upper(self.true_val))

\* BaseOutputParser.parse_result: parse the text of the first generation
BaseOutputParser_parse_result(self, result) ==
    BooleanOutputParser_parse(self, result[1].text)

\* An invoke that hands the parser the message itself, not its content.
BaseOutputParser_invoke_repr(self, input) ==
    IF input.kind = "AIMessage"
    THEN BaseOutputParser_parse_result(self,
             <<Generation(<<"c","o","n","t","e","n","t","=">> \o input.content)>>)
    ELSE BaseOutputParser_parse_result(self, <<Generation(input.content)>>)

\* BaseOutputParser.invoke: a message is wrapped in a ChatGeneration, a str in
\* a Generation; what parse raises is re-raised to the caller
BaseOutputParser_invoke(self, input) ==
    IF input.kind = "AIMessage"
    THEN BaseOutputParser_parse_result(self, <<ChatGeneration(input)>>)
    ELSE BaseOutputParser_parse_result(self, <<Generation(input.content)>>)

----------------------------------------------------------------------------
(* StrInvertCase *)

\* `accessed` holds the (Python) indices of `result` that the call read.
Outcome(o, acc) == [outcome |-> o, accessed |-> acc]

\* A parse_result that rejects only the empty list.
StrInvertCase_parse_result_nonempty(result, partial) ==
    IF Len(result) = 0
    THEN Outcome(Raise("NotImplementedError"), {})
    ELSE LET generation == result[1]
         IN  IF generation.kind # "ChatGeneration"
             THEN Outcome(Raise("OutputParserException"), {0})
             ELSE Outcome(Return(SwapCase(generation.message.content)), {0})

\* A parse_result that checks the candidate's shape before the count.
StrInvertCase_parse_result_shapefirst(result, partial) ==
    IF Len(result) = 0
    THEN Outcome(Raise("IndexError"), {0})
    ELSE LET generation == result[1]
         IN  IF generation.kind # "ChatGeneration"
             THEN Outcome(Raise("OutputParserException"), {0})
             ELSE IF Len(result) # 1
             THEN Outcome(Raise("NotImplementedError"), {0})
             ELSE Outcome(Return(SwapCase(generation.message.content)), {0})

StrInvertCase_parse_result(result, partial) ==
    IF Len(result) # 1
    THEN Outcome(Raise("NotImplementedError"), {})
    ELSE LET generation == result[1]
         IN  IF generation.kind # "ChatGeneration"
             THEN Outcome(Raise("OutputParserException"), {0})
             ELSE Outcome(Return(SwapCase(generation.message.content)), {0})

----------------------------------------------------------------------------
(* Direct calls of the two parsers' own methods: BooleanOutputParser.parse
   and StrInvertCase.parse_result *)

NoCall == [state |-> "idle", input |-> StrInput(<<>>), outcome |-> NoOutcome]

GenTexts ==
    {<<>>, <<"M","e","o","w">>, <<"h","E","L","L","O","!">>, <<" ","o","k","\n">>}

Candidates ==
    {Generation(t) : t \in GenTexts} \cup {ChatGeneration(AIMessage(t)) : t \in GenTexts}

GenLists == BoundedSeq(Candidates, MaxGens)

ExampleParsers == {DefaultParser, BooleanOutputParser(OKAY, NO)}

NoGCall == [state |-> "idle", op |-> "none", result |-> <<>>, partial |-> FALSE,
            text |-> <<>>, outcome |-> NoOutcome, accessed |-> {}]

IdleStream ==
    /\ chain = "none" /\ frags = <<>> /\ consumed = 0 /\ agg = <<>>
    /\ out = <<>> /\ spc = "idle"

IdleBatch ==
    /\ bmode = "none" /\ inputs = <<>> /\ slots = <<>> /\ order = <<>>
    /\ bstate = "idle" /\ bresult = NoOutcome

InitParsers ==
    /\ parser \in ExampleParsers
    /\ call = NoCall
    /\ gcall = NoGCall
    /\ IdleStream
    /\ IdleBatch

\* parser.parse(text)
CallParse(text) ==
    /\ gcall.state = "idle"
    /\ gcall' = [NoGCall EXCEPT !.state = "done", !.op = "parse", !.text = text,
                    !.outcome = BooleanOutputParser_parse(parser, text)]
    /\ UNCHANGED <<boolVars, streamVars, batchVars>>

\* StrInvertCase().parse_result(result, partial=partial)
CallParseResult(result, partial) ==
    /\ gcall.state = "idle"
    /\ LET r == StrInvertCase_parse_result(result, partial)
       IN  gcall' = [NoGCall EXCEPT !.state = "done", !.op = "parse_result",
                        !.result = result, !.partial = partial,
                        !.outcome = r.outcome, !.accessed = r.accessed]
    /\ UNCHANGED <<boolVars, streamVars, batchVars>>

\* the caller drops the result
DiscardCall ==
    /\ gcall.state = "done"
    /\ gcall' = NoGCall
    /\ UNCHANGED <<boolVars, streamVars, batchVars>>

NextParsers ==
    \/ \E text \in Texts : CallParse(text)
    \/ \E result \in GenLists, partial \in BOOLEAN : CallParseResult(result, partial)
    \/ DiscardCall

SpecParsers == InitParsers /\ [][NextParsers]_vars

----------------------------------------------------------------------------
(* The BooleanOutputParser session: construct, invoke, drop the result *)

\* parser = BooleanOutputParser()
InitBool ==
    /\ parser = DefaultParser
    /\ call = NoCall
    /\ gcall = NoGCall
    /\ IdleStream
    /\ IdleBatch

\* parser = BooleanOutputParser(true_val=tv, false_val=fv)
Construct(tv, fv) ==
    /\ call.state = "idle"
    /\ parser' = BooleanOutputParser(tv, fv)
    /\ UNCHANGED <<call, genVars, streamVars, batchVars>>

\* parser.invoke(input)
Invoke(input) ==
    /\ call.state = "idle"
    /\ call' = [state |-> "done", input |-> input,
                outcome |-> BaseOutputParser_invoke(parser, input)]
    /\ UNCHANGED <<parser, genVars, streamVars, batchVars>>

\* the caller drops the result; the parser can be invoked again
Discard ==
    /\ call.state = "done"
    /\ call' = NoCall
    /\ UNCHANGED <<parser, genVars, streamVars, batchVars>>

NextBool ==
    \/ \E tv \in Tokens, fv \in Tokens : Construct(tv, fv)
    \/ \E input \in ParserInputs : Invoke(input)
    \/ Discard

SpecBool == InitBool /\ [][NextBool]_vars

----------------------------------------------------------------------------
(* The function parser and the generator parser *)

\* A parse that returns the content as it is.
parse_unchanged(ai_message) == ai_message.content

\* def parse(ai_message): return ai_message.content.swapcase()
parse(ai_message) == SwapCase(ai_message.content)

\* A streaming_parse that yields the upper-cased content.
streaming_parse_yield_upper(chunk) == Upper(chunk.content)

\* what streaming_parse yields for one chunk: chunk.content.swapcase()
streaming_parse_yield(chunk) == SwapCase(chunk.content)

\* for chunk in chunks: yield ...; all that the generator yields over chunks
streaming_parse(chunks) == [i \in 1..Len(chunks) |-> streaming_parse_yield(chunks[i])]

\* A fragment of a streamed model output
AIMessageChunk(t) == [kind |-> "AIMessageChunk", content |-> t]

\* model.invoke: the whole model output as one message
ModelInvoke(fs) == AIMessage(Concat(fs))

\* RunnableLambda(parse).invoke
RunnableLambda_invoke(input) == Return(parse(input))

\* RunnableGenerator(streaming_parse).invoke: the generator runs over the
\* one input and its outputs are added up
RunnableGenerator_invoke(input) == Return(Concat(streaming_parse(<<input>>)))

\* chain.invoke for chain = model | parser
ChainInvoke(kind, fs) ==
    IF kind = "lambda"
    THEN RunnableLambda_invoke(ModelInvoke(fs))
    ELSE RunnableGenerator_invoke(ModelInvoke(fs))

FragTexts == {<<>>, <<"i">>, <<"'","M">>, <<" ","c","L">>, <<"H","i","!">>}

FragLists == BoundedSeq(FragTexts, MaxFrags)

InitStream ==
    /\ parser = DefaultParser
    /\ call = NoCall
    /\ gcall = NoGCall
    /\ IdleStream
    /\ IdleBatch

\* for chunk in chain.stream(...), the model output arriving as fragments fs
StreamStart(kind, fs) ==
    /\ spc = "idle"
    /\ chain' = kind
    /\ frags' = fs
    /\ consumed' = 0
    /\ agg' = <<>>
    /\ out' = <<>>
    /\ spc' = "pull"
    /\ UNCHANGED <<boolVars, genVars, batchVars>>

\* RunnableLambda.transform takes the next fragment and adds it to its aggregate
LambdaConsume ==
    /\ chain = "lambda" /\ spc = "pull"
    /\ consumed < Len(frags)
    /\ consumed' = consumed + 1
    /\ agg' = agg \o AIMessageChunk(frags[consumed + 1]).content
    /\ UNCHANGED <<chain, frags, out, spc, boolVars, genVars, batchVars>>

\* the input is exhausted: the function is called once on the aggregate
LambdaEmit ==
    /\ chain = "lambda" /\ spc = "pull"
    /\ consumed = Len(frags)
    /\ out' = IF consumed > 0 THEN <<parse(AIMessage(agg))>> ELSE <<>>
    /\ spc' = "done"
    /\ UNCHANGED <<chain, frags, consumed, agg, boolVars, genVars, batchVars>>

\* streaming_parse's loop takes the next fragment
GenPull ==
    /\ chain = "generator" /\ spc = "pull"
    /\ consumed < Len(frags)
    /\ consumed' = consumed + 1
    /\ spc' = "yield"
    /\ UNCHANGED <<chain, frags, agg, out, boolVars, genVars, batchVars>>

\* streaming_parse yields for the fragment it holds
GenYield ==
    /\ chain = "generator" /\ spc = "yield"
    /\ out' = Append(out, streaming_parse_yield(AIMessageChunk(frags[consumed])))
    /\ spc' = "pull"
    /\ UNCHANGED <<chain, frags, consumed, agg, boolVars, genVars, batchVars>>

\* streaming_parse's loop ends with the input
GenStop ==
    /\ chain = "generator" /\ spc = "pull"
    /\ consumed = Len(frags)
    /\ spc' = "done"
    /\ UNCHANGED <<chain, frags, consumed, agg, out, boolVars, genVars, batchVars>>

\* the caller's loop over the stream is over
StreamEnd ==
    /\ spc = "done"
    /\ chain' = "none" /\ frags' = <<>> /\ consumed' = 0 /\ agg' = <<>>
    /\ out' = <<>> /\ spc' = "idle"
    /\ UNCHANGED <<boolVars, genVars, batchVars>>

NextStream ==
    \/ \E kind \in {"lambda", "generator"}, fs \in FragLists : StreamStart(kind, fs)
    \/ LambdaConsume
    \/ LambdaEmit
    \/ GenPull
    \/ GenYield
    \/ GenStop
    \/ StreamEnd

SpecStream == InitStream /\ [][NextStream]_vars

----------------------------------------------------------------------------
(* parser.batch and parser.abatch *)

BatchInputs ==
    {StrInput(OKAY), StrInput(NO), StrInput(MEOW), AIMessage(<<" ","n","o","\n">>)}

BatchLists == BoundedSeq(BatchInputs, MaxBatch)

AllParsed(sl) == \A i \in 1..Len(sl) : sl[i] # <<>>

Failed(sl) == {i \in 1..Len(sl) : sl[i] # <<>> /\ sl[i][1].kind = "raise"}

Min(S) == CHOOSE x \in S : \A y \in S : x <= y

\* the first failure batch meets (in input order) or abatch (in completion order)
FirstFailure(mode, sl, ord) ==
    IF mode = "batch"
    THEN sl[Min(Failed(sl))][1]
    ELSE sl[ord[Min({k \in 1..Len(ord) : ord[k] \in Failed(sl)})]][1]

\* A batch that lists the results as the parses completed.
BatchResult_completion(mode, sl, ord) ==
    IF Failed(sl) # {}
    THEN FirstFailure(mode, sl, ord)
    ELSE Return([k \in 1..Len(ord) |-> sl[ord[k]][1].value[1]])

\* what batch/abatch hands to its caller: the results in input order, or the
\* failure of an input re-raised
BatchResult(mode, sl, ord) ==
    IF Failed(sl) # {}
    THEN FirstFailure(mode, sl, ord)
    ELSE Return([i \in 1..Len(sl) |-> sl[i][1].value[1]])

InitBatch ==
    /\ parser \in ExampleParsers
    /\ call = NoCall
    /\ gcall = NoGCall
    /\ IdleStream
    /\ IdleBatch

\* parser.batch(ins) / await parser.abatch(ins)
BatchStart(mode, ins) ==
    /\ bstate = "idle"
    /\ bmode' = mode
    /\ inputs' = ins
    /\ slots' = [i \in 1..Len(ins) |-> <<>>]
    /\ order' = <<>>
    /\ bstate' = "running"
    /\ bresult' = NoOutcome
    /\ UNCHANGED <<boolVars, genVars, streamVars>>

\* a worker (batch) or a task (abatch) invokes the parser on input i
BatchRun(i) ==
    /\ bstate = "running"
    /\ i \in 1..Len(inputs)
    /\ slots[i] = <<>>
    /\ slots' = [slots EXCEPT ![i] = <<BaseOutputParser_invoke(parser, inputs[i])>>]
    /\ order' = Append(order, i)
    /\ UNCHANGED <<bmode, inputs, bstate, bresult, boolVars, genVars, streamVars>>

\* every input is parsed: the call ends
BatchFinish ==
    /\ bstate = "running"
    /\ AllParsed(slots)
    /\ bresult' = BatchResult(bmode, slots, order)
    /\ bstate' = "done"
    /\ UNCHANGED <<bmode, inputs, slots, order, boolVars, genVars, streamVars>>

\* abatch gathers its tasks: the first failure ends the call at once
AbatchFail ==
    /\ bstate = "running"
    /\ bmode = "abatch"
    /\ ~AllParsed(slots)
    /\ Failed(slots) # {}
    /\ bresult' = FirstFailure(bmode, slots, order)
    /\ bstate' = "done"
    /\ UNCHANGED <<bmode, inputs, slots, order, boolVars, genVars, streamVars>>

\* the caller drops the result
BatchEnd ==
    /\ bstate = "done"
    /\ bmode' = "none" /\ inputs' = <<>> /\ slots' = <<>> /\ order' = <<>>
    /\ bstate' = "idle" /\ bresult' = NoOutcome
    /\ UNCHANGED <<boolVars, genVars, streamVars>>

NextBatch ==
    \/ \E mode \in {"batch", "abatch"}, ins \in BatchLists : BatchStart(mode, ins)
    \/ \E i \in 1..MaxBatch : BatchRun(i)
    \/ BatchFinish
    \/ AbatchFail
    \/ BatchEnd

SpecBatch == InitBatch /\ [][NextBatch]_vars

----------------------------------------------------------------------------
(* Properties of the BooleanOutputParser session (SpecBool) *)

\* a and b are the same character, or the two cases of one letter
SameLetter(a, b) ==
    \/ a = b
    \/ \E i \in 1..Len(LowerLetters) : {a, b} = {LowerLetters[i], UpperLetters[i]}

EqIgnoreCase(s, t) ==
    /\ Len(s) = Len(t)
    /\ \A i \in 1..Len(s) : SameLetter(s[i], t[i])

\* t[i..j] is t without its leading and trailing whitespace
IsTrim(t, i, j) ==
    /\ \A k \in 1..(i - 1) : t[k] \in Whitespace
    /\ \A k \in (j + 1)..Len(t) : t[k] \in Whitespace
    /\ i <= j => (t[i] \notin Whitespace /\ t[j] \notin Whitespace)
    /\ i > j => (i = 1 /\ j = 0)

\* t, with leading and trailing whitespace removed, equals tok ignoring case
TrimmedEq(t, tok) ==
    \E i \in 1..(Len(t) + 1), j \in 0..Len(t) :
        IsTrim(t, i, j) /\ EqIgnoreCase(SubSeq(t, i, j), tok)

NoPadding(tok) ==
    tok = <<>> \/ (tok[1] \notin Whitespace /\ tok[Len(tok)] \notin Whitespace)

OPE == Raise("OutputParserException")

\* C1 as stated: a text that is the true token (stripped, ignoring case)
\* parses to True, and one that is the false token parses to False.
C1_AsStated ==
    call.state = "done" =>
        /\ TrimmedEq(call.input.content, parser.true_val)
               => call.outcome = Return(TRUE)
        /\ TrimmedEq(call.input.content, parser.false_val)
               => call.outcome = Return(FALSE)

\* C1 (amended): a text that is the true token (stripped, ignoring case)
\* parses to True without failure; one that is the false token and not also
\* the true token (ignoring case) parses to False without failure.
C1_AcceptsTokens ==
    call.state = "done" =>
        /\ TrimmedEq(call.input.content, parser.true_val)
               => call.outcome = Return(TRUE)
        /\ (/\ TrimmedEq(call.input.content, parser.false_val)
            /\ ~TrimmedEq(call.input.content, parser.true_val))
               => call.outcome = Return(FALSE)

C1_Witness ==
    /\ call.state = "done"
    /\ parser = DefaultParser
    /\ call.input = StrInput(<<" ","n","o","\n">>)
    /\ call.outcome = Return(FALSE)

\* C2: a text that is neither token (stripped, ignoring case) yields no
\* value and an OutputParserException, which is what the caller of invoke
\* receives.
C2_RejectsOthers ==
    (/\ call.state = "done"
     /\ ~TrimmedEq(call.input.content, parser.true_val)
     /\ ~TrimmedEq(call.input.content, parser.false_val))
        => (/\ call.outcome.kind = "raise"
            /\ call.outcome.exc = "OutputParserException"
            /\ call.outcome.value = <<>>)

C2_Witness ==
    /\ call.state = "done"
    /\ parser = DefaultParser
    /\ call.input = StrInput(MEOW)
    /\ call.outcome = OPE

Reconfigured == parser # DefaultParser

\* C3 as stated: after any reconfiguration the true token parses to True,
\* the false token to False, and a replaced default is rejected.
C3_AsStated ==
    (call.state = "done" /\ Reconfigured) =>
        /\ call.input.content = parser.true_val => call.outcome = Return(TRUE)
        /\ call.input.content = parser.false_val => call.outcome = Return(FALSE)
        /\ (parser.true_val # YES /\ call.input.content = YES)
               => call.outcome = OPE
        /\ (parser.false_val # NO /\ call.input.content = NO)
               => call.outcome = OPE

\* C3 (amended): after a reconfiguration to tokens that carry no leading or
\* trailing whitespace and differ from each other ignoring case, the true
\* token parses to True and the false token to False; a default token that
\* equals neither current token ignoring case is rejected.
C3_Reconfigured ==
    (/\ call.state = "done"
     /\ Reconfigured
     /\ NoPadding(parser.true_val)
     /\ NoPadding(parser.false_val)
     /\ ~EqIgnoreCase(parser.true_val, parser.false_val)) =>
        /\ call.input.content = parser.true_val => call.outcome = Return(TRUE)
        /\ call.input.content = parser.false_val => call.outcome = Return(FALSE)
        /\ \A d \in {YES, NO} :
               (/\ call.input.content = d
                /\ ~EqIgnoreCase(d, parser.true_val)
                /\ ~EqIgnoreCase(d, parser.false_val))
                   => call.outcome = OPE

C3_Witness ==
    /\ call.state = "done"
    /\ parser = BooleanOutputParser(OKAY, NO)
    /\ call.input = StrInput(YES)
    /\ call.outcome = OPE

\* C6: invoking the parser on a chat message gives the outcome of invoking
\* it on the message's content as a string.
C6_MessageAsString ==
    (call.state = "done" /\ call.input.kind = "AIMessage") =>
        call.outcome = BaseOutputParser_invoke(parser, StrInput(call.input.content))

C6_Witness ==
    /\ call.state = "done"
    /\ parser = BooleanOutputParser(OKAY, NO)
    /\ call.input = AIMessage(<<"\t","O","k","a","y"," ">>)
    /\ call.outcome = Return(TRUE)

----------------------------------------------------------------------------
(* Properties of the parsers' own methods (SpecParsers) *)

\* b is a with the case of every letter inverted and all else kept
IsCaseInversion(a, b) ==
    /\ Len(a) = Len(b)
    /\ \A i \in 1..Len(a) :
          /\ IsLower(a[i]) => (IsUpper(b[i]) /\ SameLetter(a[i], b[i]))
          /\ IsUpper(a[i]) => (IsLower(b[i]) /\ SameLetter(a[i], b[i]))
          /\ (~IsLower(a[i]) /\ ~IsUpper(a[i])) => b[i] = a[i]

ParseResultDone == gcall.state = "done" /\ gcall.op = "parse_result"

\* C4: parse_result rejects every list whose length is not exactly one, the
\* empty list included: it signals a failure and returns no value, whatever
\* the partial flag and the candidates' shapes.
C4_RejectsWrongCount ==
    (ParseResultDone /\ Len(gcall.result) # 1) =>
        (gcall.outcome.kind = "raise" /\ gcall.outcome.value = <<>>)

C4_Witness ==
    /\ ParseResultDone
    /\ Len(gcall.result) = 2
    /\ gcall.partial
    /\ gcall.result[1].kind = "ChatGeneration"
    /\ gcall.result[2].kind = "Generation"
    /\ gcall.outcome.kind = "raise"

\* C5 as stated: every failure either parser signals is an
\* OutputParserException.
C5_AsStated ==
    (gcall.state = "done" /\ gcall.outcome.kind = "raise") =>
        gcall.outcome.exc = "OutputParserException"

\* C5 (amended): every failure either parser signals is an
\* OutputParserException, except the wrong number of candidates, which
\* StrInvertCase.parse_result signals as a NotImplementedError.
C5_FailureKinds ==
    (gcall.state = "done" /\ gcall.outcome.kind = "raise") =>
        IF gcall.op = "parse_result" /\ Len(gcall.result) # 1
        THEN gcall.outcome.exc = "NotImplementedError"
        ELSE gcall.outcome.exc = "OutputParserException"

C5_Witness ==
    /\ gcall.state = "done"
    /\ gcall.op = "parse"
    /\ gcall.text = MEOW
    /\ gcall.outcome.kind = "raise"
    /\ gcall.outcome.exc = "OutputParserException"

\* C10: the count is checked before the shape. One chat candidate gives the
\* case-inverted message text, one plain-text candidate gives an
\* OutputParserException; any other count gives the count failure, also for
\* non-chat candidates, and no element of the list is read.
C10_CountBeforeShape ==
    ParseResultDone =>
        IF Len(gcall.result) = 1
        THEN IF gcall.result[1].kind = "ChatGeneration"
             THEN /\ gcall.outcome.kind = "return"
                  /\ IsCaseInversion(gcall.result[1].message.content,
                                     gcall.outcome.value[1])
             ELSE gcall.outcome = OPE
        ELSE /\ gcall.outcome = Raise("NotImplementedError")
             /\ gcall.accessed = {}

C10_Witness ==
    /\ ParseResultDone
    /\ Len(gcall.result) = 2
    /\ \A i \in 1..2 : gcall.result[i].kind = "Generation"
    /\ gcall.outcome = Raise("NotImplementedError")
    /\ gcall.accessed = {}

----------------------------------------------------------------------------
(* Properties of the streamed chains (SpecStream) *)

\* C8: the function parser does not stream. Over n >= 1 fragments the chain
\* emits nothing before the last fragment is consumed, and then exactly one
\* chunk: the case inversion of the concatenation of all fragments.
C8_LambdaAggregates ==
    (chain = "lambda" /\ Len(frags) >= 1) =>
        /\ consumed < Len(frags) => out = <<>>
        /\ spc = "pull" => out = <<>>
        /\ spc = "done" =>
              /\ consumed = Len(frags)
              /\ Len(out) = 1
              /\ IsCaseInversion(Concat(frags), out[1])

C8_Witness ==
    /\ chain = "lambda"
    /\ spc = "done"
    /\ frags = << <<"H","i","!">>, <<" ","c","L">>, <<"i">> >>
    /\ out = << <<"h","I","!"," ","C","l","I">> >>

\* C9: the generator parser streams. The i-th output is yielded after the
\* i-th fragment is consumed and before the next one is, and is the case
\* inversion of the i-th fragment; n fragments give n outputs, whose
\* concatenation is what invoke returns for the same model output.
C9_GeneratorStreams ==
    chain = "generator" =>
        /\ spc = "yield" => consumed = Len(out) + 1
        /\ spc \in {"pull", "done"} => consumed = Len(out)
        /\ \A i \in 1..Len(out) : IsCaseInversion(frags[i], out[i])
        /\ spc = "done" =>
              /\ Len(out) = Len(frags)
              /\ ChainInvoke("generator", frags) = Return(Concat(out))

C9_Witness ==
    /\ chain = "generator"
    /\ spc = "pull"
    /\ frags = << <<"i">>, <<"'","M">>, <<" ","c","L">> >>
    /\ consumed = 2
    /\ out = << <<"I">>, <<"'","m">> >>

----------------------------------------------------------------------------
(* Properties of batch and abatch (SpecBatch) *)

InputsAccepted ==
    \A i \in 1..Len(inputs) : BaseOutputParser_invoke(parser, inputs[i]).kind = "return"

ListOfInvokes ==
    /\ bresult.kind = "return"
    /\ Len(bresult.value[1]) = Len(inputs)
    /\ \A i \in 1..Len(inputs) :
          BaseOutputParser_invoke(parser, inputs[i]) = Return(bresult.value[1][i])

\* C7 as stated: for every list of inputs batch and abatch return the list
\* of what invoke returns for each input, in input order.
C7_AsStated == bstate = "done" => ListOfInvokes

\* C7 (amended): for every list of inputs that invoke accepts one by one,
\* batch and abatch return the list of what invoke returns for each input,
\* in input order, whatever the order the parses complete in; when invoke
\* rejects an input they return no list and signal the parsing failure.
C7_BatchInOrder ==
    bstate = "done" =>
        IF InputsAccepted THEN ListOfInvokes ELSE bresult = OPE

C7_Witness ==
    /\ bstate = "done"
    /\ bmode = "abatch"
    /\ parser = BooleanOutputParser(OKAY, NO)
    /\ inputs = <<StrInput(OKAY), StrInput(NO)>>
    /\ order = <<2, 1>>
    /\ bresult = Return(<<TRUE, FALSE>>)

====
